---------------------------- MODULE Spec2Model ----------------------------
(***************************************************************************)
(* A model of the hyperschedule scraper library                            *)
(* (src/hyperschedule/__init__.py): the validated value objects Date,      *)
(* Time, Weekdays, Subterm, Session, Schedule, Course, Term and            *)
(* ScraperResult, their setters, their comparisons and their JSON          *)
(* conversions.                                                            *)
(*                                                                         *)
(* Python values are records tagged with their type.  Mutable objects      *)
(* (Weekdays, Session, Schedule, Course) live in heaps indexed by object   *)
(* identity, and a field that holds such an object holds a reference.      *)
(* A call that raises is modelled by the exception's name in the status    *)
(* of the call's outcome.                                                  *)
(***************************************************************************)
EXTENDS Integers, Sequences, FiniteSets, TLC

VARIABLES
    weekdays,   \* heap of Weekdays objects: id -> [days: set of str]
    sessions,   \* heap of Session objects: id -> the seven fields
    schedules,  \* heap of Schedule objects: id -> [sessions: set of entries]
    courses,    \* heap of Course objects: id -> the twelve fields
    result,     \* the ScraperResult: [term, courses: set of <<key, course ref>>]
    outcome     \* the last call: its name, target, arguments, status, warning, return value

vars == <<weekdays, sessions, schedules, courses, result, outcome>>

---------------------------------------------------------------------------
(* Bounds of the model *)

\* longest string handed to Weekdays(...) and Weekdays.add_day
MaxDayLen == 2
\* minutes of the Times handed to the Session setters are 0..MaxMinute
MaxMinute == 1
\* longest sort key handed to Course.set_sort_key
MaxSortKeyLen == 1
\* most arguments handed to Subterm(...)
MaxSubterms == 2
\* longest list handed to Course.set_instructors
MaxInstructors == 2

---------------------------------------------------------------------------
(* Python values *)

None == [type |-> "NoneType"]
Str(chars) == [type |-> "str", chars |-> chars]
IntVal(n) == [type |-> "int", val |-> n]
BoolVal(b) == [type |-> "bool", val |-> b]
List(items) == [type |-> "list", items |-> items]
Set(elems) == [type |-> "set", elems |-> elems]
Ref(cls, id) == [type |-> cls, id |-> id]

\* the status of a call that returned normally
OK == "ok"

\* all sequences over S of length 0..n
SeqsUpTo(S, n) == UNION {[1..k -> S] : k \in 0..n}

\* str.upper() on one code point (ASCII)
UpperChar(c) == IF c >= 97 /\ c <= 122 THEN c - 32 ELSE c

\* str.upper()
Upper(s) == Str([i \in 1..Len(s.chars) |-> UpperChar(s.chars[i])])

\* `a in b` for two strings: a is a substring of b
StrContains(b, a) ==
    \E i \in 0..(Len(b.chars) - Len(a.chars)) :
        \A j \in 1..Len(a.chars) : b.chars[i + j] = a.chars[j]

\* `a < b` for two sequences of integers (the order of str and of lists of ints)
SeqLess(a, b) ==
    \E i \in 1..(Len(b) + 1) :
        /\ i <= Len(a) + 1
        /\ \A j \in 1..(i - 1) : a[j] = b[j]
        /\ \/ i = Len(a) + 1 /\ i <= Len(b)
           \/ i <= Len(a) /\ i <= Len(b) /\ a[i] < b[i]

---------------------------------------------------------------------------
(* Date and Time: immutable, ordered by their field tuples *)

Date(y, m, d) == [type |-> "Date", year |-> y, month |-> m, day |-> d]
Time(h, m) == [type |-> "Time", hour |-> h, minute |-> m]

Date_lt(a, b) ==
    SeqLess(<<a.year, a.month, a.day>>, <<b.year, b.month, b.day>>)

Time_lt(a, b) == SeqLess(<<a.hour, a.minute>>, <<b.hour, b.minute>>)

\* functools.total_ordering: a >= b is not (a < b)
Date_ge(a, b) == ~Date_lt(a, b)
Time_ge(a, b) == ~Time_lt(a, b)

\* the value of a string of decimal digits
RECURSIVE DigitsValue(_)
DigitsValue(chars) ==
    IF chars = <<>> THEN 0
    ELSE DigitsValue(SubSeq(chars, 1, Len(chars) - 1)) * 10
         + (chars[Len(chars)] - 48)

IsDigits(chars) ==
    chars # <<>> /\ \A i \in 1..Len(chars) : chars[i] >= 48 /\ chars[i] <= 57

\* the positions of character c in chars, in order
Positions(chars, c) == {i \in 1..Len(chars) : chars[i] = c}

\* Date.__init__(string): dateparser.parse on the form Date._to_json writes,
\* "Y-M-D"; dateparser raises TypeError for a non-string, and a string of
\* another form counts as unparseable here
Date_init(string) ==
    IF string.type # "str" THEN [status |-> "TypeError", val |-> None]
    ELSE LET c == string.chars
             dash == Positions(c, 45)
         IN IF Cardinality(dash) # 2
            THEN [status |-> "ImplementorError", val |-> None]
            ELSE LET i == CHOOSE x \in dash : \A y \in dash : x <= y
                     j == CHOOSE x \in dash : \A y \in dash : y <= x
                     ys == SubSeq(c, 1, i - 1)
                     ms == SubSeq(c, i + 1, j - 1)
                     ds == SubSeq(c, j + 1, Len(c))
                 IN IF IsDigits(ys) /\ IsDigits(ms) /\ IsDigits(ds)
                    THEN [status |-> OK,
                          val |-> Date(DigitsValue(ys), DigitsValue(ms),
                                       DigitsValue(ds))]
                    ELSE [status |-> "ImplementorError", val |-> None]

\* Time.__init__(string): dateparser.parse on the form Time._to_json writes,
\* "HH:MM"
Time_init(string) ==
    IF string.type # "str" THEN [status |-> "TypeError", val |-> None]
    ELSE LET c == string.chars
             colon == Positions(c, 58)
         IN IF Cardinality(colon) # 1
            THEN [status |-> "ImplementorError", val |-> None]
            ELSE LET i == CHOOSE x \in colon : TRUE
                     hs == SubSeq(c, 1, i - 1)
                     ms == SubSeq(c, i + 1, Len(c))
                 IN IF IsDigits(hs) /\ IsDigits(ms)
                       /\ DigitsValue(hs) <= 23 /\ DigitsValue(ms) <= 59
                    THEN [status |-> OK,
                          val |-> Time(DigitsValue(hs), DigitsValue(ms))]
                    ELSE [status |-> "ImplementorError", val |-> None]

\* Date._from_json and Time._from_json are static methods declared with the
\* parameters (self, string): a call binds its positional arguments to both
\* and raises TypeError unless it passes exactly two.
Date_from_json(args) ==
    IF Len(args) # 2 THEN [status |-> "TypeError", val |-> None]
    ELSE IF args[2] = None THEN [status |-> OK, val |-> None]
    ELSE Date_init(args[2])

Time_from_json(args) ==
    IF Len(args) # 2 THEN [status |-> "TypeError", val |-> None]
    ELSE IF args[2] = None THEN [status |-> OK, val |-> None]
    ELSE Time_init(args[2])

---------------------------------------------------------------------------
(* Weekdays *)

\* Weekdays.CHARS = "MTWRFSU"
CHARS == Str(<<77, 84, 87, 82, 70, 83, 85>>)

WeekdaysIds == {"w1", "w2"}

\* Weekdays.add_day looking for the day as it was given, before str.upper()
Weekdays_add_day_warn_as_given(days, day) ==
    LET d == Upper(day) IN
    IF ~StrContains(CHARS, d)
    THEN [days |-> days, status |-> "ImplementorError", warned |-> FALSE]
    ELSE [days |-> days \cup {d}, status |-> OK, warned |-> day \in days]

\* Weekdays.add_day keeping the new day alone
Weekdays_add_day_replacing(days, day) ==
    LET d == Upper(day) IN
    IF ~StrContains(CHARS, d)
    THEN [days |-> days, status |-> "ImplementorError", warned |-> FALSE]
    ELSE [days |-> {d}, status |-> OK, warned |-> d \in days]

\* Weekdays.add_day on a day set: the new set, the status and whether it warned
Weekdays_add_day(days, day) ==
    LET d == Upper(day) IN
    IF ~StrContains(CHARS, d)
    THEN [days |-> days, status |-> "ImplementorError", warned |-> FALSE]
    ELSE [days |-> days \cup {d}, status |-> OK, warned |-> d \in days]

\* Weekdays.__init__: add_day for each character of `days`, stopping at the
\* first that raises
RECURSIVE Weekdays_init_from(_, _, _, _)
Weekdays_init_from(days, arg, i, warned) ==
    IF i > Len(arg.chars)
    THEN [days |-> days, status |-> OK, warned |-> warned]
    ELSE LET r == Weekdays_add_day(days, Str(<<arg.chars[i]>>)) IN
         IF r.status # OK
         THEN [days |-> days, status |-> r.status, warned |-> warned]
         ELSE Weekdays_init_from(r.days, arg, i + 1, warned \/ r.warned)

\* iterating anything but a string here raises TypeError (not iterable)
Weekdays_init(arg) ==
    IF arg = None
    THEN [days |-> {}, status |-> OK, warned |-> FALSE]
    ELSE IF arg.type # "str"
    THEN [days |-> {}, status |-> "TypeError", warned |-> FALSE]
    ELSE Weekdays_init_from({}, arg, 1, FALSE)

\* a Weekdays object made by a conversion and not yet bound to a name
FreshWeekdays(days) == [type |-> "Weekdays", days |-> days]

\* the _days of a Weekdays, given by reference or fresh
WeekdaysDays(w) == IF "id" \in DOMAIN w THEN weekdays[w.id].days ELSE w.days

\* Weekdays._check_valid
Weekdays_check_valid(w) ==
    IF WeekdaysDays(w) = {} THEN "ImplementorError" ELSE OK

\* the letter of the day in place of its position in Weekdays.CHARS
Weekdays_index_by_letter(d) == IF d.chars = <<>> THEN 0 ELSE d.chars[1]

\* Weekdays.CHARS.index(d): the first place, counted from 0, where d occurs
\* in "MTWRFSU"; every stored day occurs there, add_day has seen to it
Weekdays_index(d) ==
    LET found == {i \in 0..(Len(CHARS.chars) - Len(d.chars)) :
                     \A j \in 1..Len(d.chars) : CHARS.chars[i + j] = d.chars[j]}
    IN CHOOSE i \in found : \A k \in found : i <= k

\* sorted(days, key=Weekdays.CHARS.index): a set is iterated in an order of
\* its own and the sort is stable, so the result is any arrangement of the
\* days in which the keys never decrease
Weekdays_sorted(days) ==
    {p \in [1..Cardinality(days) -> days] :
        /\ \A i, j \in DOMAIN p : i # j => p[i] # p[j]
        /\ \A i, j \in DOMAIN p :
               i < j => Weekdays_index(p[i]) <= Weekdays_index(p[j])}

\* "".join(strings)
RECURSIVE Join(_)
Join(strings) ==
    IF strings = <<>> THEN <<>>
    ELSE strings[1].chars \o Join(Tail(strings))

\* Weekdays._to_json: the strings it may return
Weekdays_to_json(days) == {Str(Join(p)) : p \in Weekdays_sorted(days)}

\* sorted(Weekdays.CHARS.index(d) for d in days)
Weekdays_sorted_indexes(days) ==
    LET p == CHOOSE p \in Weekdays_sorted(days) : TRUE IN
    [i \in DOMAIN p |-> Weekdays_index(p[i])]

\* Weekdays.__lt__: the two sorted lists of positions compared
Weekdays_lt(a, b) ==
    SeqLess(Weekdays_sorted_indexes(a), Weekdays_sorted_indexes(b))

\* Weekdays._from_json(string)
Weekdays_from_json(args) ==
    IF Len(args) # 1 THEN [status |-> "TypeError", val |-> None]
    ELSE IF args[1] = None THEN [status |-> OK, val |-> None]
    ELSE LET r == Weekdays_init(args[1]) IN
         [status |-> r.status,
          val |-> IF r.status = OK THEN FreshWeekdays(r.days) ELSE None]

---------------------------------------------------------------------------
(* Subterm: immutable *)

\* bool(x)
Truthy(v) ==
    CASE v.type = "bool" -> v.val
      [] v.type = "int" -> v.val # 0
      [] v.type = "str" -> v.chars # <<>>
      [] v.type = "list" -> v.items # <<>>
      [] v.type = "NoneType" -> FALSE
      [] OTHER -> TRUE

Subterm(bools) == [type |-> "Subterm", subterms |-> bools]

\* Subterm.__init__ without the check that some argument is truthy
Subterm_init_nothing_included(args) ==
    IF args = <<>>
    THEN [status |-> "ImplementorError", val |-> None]
    ELSE [status |-> OK,
          val |-> Subterm([i \in 1..Len(args) |-> Truthy(args[i])])]

\* Subterm.__init__(*subterms)
Subterm_init(args) ==
    IF args = <<>>
    THEN [status |-> "ImplementorError", val |-> None]
    ELSE IF ~\E i \in 1..Len(args) : Truthy(args[i])
    THEN [status |-> "ImplementorError", val |-> None]
    ELSE [status |-> OK,
          val |-> Subterm([i \in 1..Len(args) |-> Truthy(args[i])])]

\* Subterm._from_json(lst): Subterm(*lst), and unpacking anything but a list
\* here raises TypeError (not iterable)
Subterm_from_json(args) ==
    IF Len(args) # 1 THEN [status |-> "TypeError", val |-> None]
    ELSE IF args[1] = None THEN [status |-> OK, val |-> None]
    ELSE IF args[1].type # "list" THEN [status |-> "TypeError", val |-> None]
    ELSE Subterm_init(args[1].items)

\* Subterm.__eq__: the two tuples are equal, that is, of one length and equal
\* place by place
Subterm_eq(a, b) ==
    /\ Len(a.subterms) = Len(b.subterms)
    /\ \A i \in 1..Len(a.subterms) : a.subterms[i] = b.subterms[i]

\* Subterm.__lt__: (len, tuple) < (len, tuple), and False < True
Subterm_lt(a, b) ==
    LET Ints(t) == [i \in 1..Len(t) |-> IF t[i] THEN 1 ELSE 0] IN
    SeqLess(<<Len(a.subterms)>> \o Ints(a.subterms),
            <<Len(b.subterms)>> \o Ints(b.subterms))

FullTerm == Subterm(<<TRUE>>)
FirstHalfTerm == Subterm(<<TRUE, FALSE>>)
SecondHalfTerm == Subterm(<<FALSE, TRUE>>)
FirstThirdTerm == Subterm(<<TRUE, FALSE, FALSE>>)
MiddleThirdTerm == Subterm(<<FALSE, TRUE, FALSE>>)
LastThirdTerm == Subterm(<<FALSE, FALSE, TRUE>>)
FirstAndMiddleThirdTerms == Subterm(<<TRUE, TRUE, FALSE>>)
MiddleAndLastThirdTerms == Subterm(<<FALSE, TRUE, TRUE>>)

---------------------------------------------------------------------------
(* Session *)

SessionIds == {1, 2}

\* Session.__init__ with no arguments
Session_new ==
    [start_date |-> None, end_date |-> None, weekdays |-> None,
     start_time |-> None, end_time |-> None, subterm |-> FullTerm,
     location |-> None]

\* Session._check_dates
Session_check_dates(s) ==
    IF s.start_date # None /\ s.end_date # None
       /\ Date_ge(s.start_date, s.end_date)
    THEN "ImplementorError" ELSE OK

\* Session._check_times, with start time equal to end time let through
Session_check_times_allow_equal(s) ==
    IF s.start_time # None /\ s.end_time # None
       /\ Time_lt(s.end_time, s.start_time)
    THEN "ImplementorError" ELSE OK

\* Session._check_times
Session_check_times(s) ==
    IF s.start_time # None /\ s.end_time # None
       /\ Time_ge(s.start_time, s.end_time)
    THEN "ImplementorError" ELSE OK

\* Session._check_valid
Session_check_valid(s) ==
    IF s.start_time = None THEN "ImplementorError"
    ELSE IF s.end_time = None THEN "ImplementorError"
    ELSE IF s.weekdays = None THEN "ImplementorError"
    ELSE OK

\* Each setter gives the object as the call leaves it and the call's status.
Session_set_start_date(s, start_date) ==
    IF start_date.type # "Date"
    THEN [obj |-> s, status |-> "ImplementorError"]
    ELSE LET t == [s EXCEPT !.start_date = start_date] IN
         [obj |-> t, status |-> Session_check_dates(t)]

Session_set_end_date(s, end_date) ==
    IF end_date.type # "Date"
    THEN [obj |-> s, status |-> "ImplementorError"]
    ELSE LET t == [s EXCEPT !.end_date = end_date] IN
         [obj |-> t, status |-> Session_check_dates(t)]

Session_set_start_time(s, start_time) ==
    IF start_time.type # "Time"
    THEN [obj |-> s, status |-> "ImplementorError"]
    ELSE LET t == [s EXCEPT !.start_time = start_time] IN
         [obj |-> t, status |-> Session_check_times(t)]

Session_set_end_time(s, end_time) ==
    IF end_time.type # "Time"
    THEN [obj |-> s, status |-> "ImplementorError"]
    ELSE LET t == [s EXCEPT !.end_time = end_time] IN
         [obj |-> t, status |-> Session_check_times(t)]

\* set_dates: set_start_date, then set_end_date unless the first raised
Session_set_dates(s, start_date, end_date) ==
    LET r == Session_set_start_date(s, start_date) IN
    IF r.status # OK THEN r ELSE Session_set_end_date(r.obj, end_date)

\* set_times: set_start_time, then set_end_time unless the first raised
Session_set_times(s, start_time, end_time) ==
    LET r == Session_set_start_time(s, start_time) IN
    IF r.status # OK THEN r ELSE Session_set_end_time(r.obj, end_time)

\* set_weekdays storing whatever it is given, None included
Session_set_weekdays_unchecked(s, w) ==
    [obj |-> [s EXCEPT !.weekdays = w], status |-> OK]

\* set_weekdays stores the reference it is given
Session_set_weekdays(s, w) ==
    IF w.type # "Weekdays"
    THEN [obj |-> s, status |-> "ImplementorError"]
    ELSE IF Weekdays_check_valid(w) # OK
    THEN [obj |-> s, status |-> "ImplementorError"]
    ELSE [obj |-> [s EXCEPT !.weekdays = w], status |-> OK]

Session_set_subterm(s, subterm) ==
    IF subterm.type # "Subterm"
    THEN [obj |-> s, status |-> "ImplementorError"]
    ELSE [obj |-> [s EXCEPT !.subterm = subterm], status |-> OK]

Session_set_location(s, location) ==
    IF location.type # "str"
    THEN [obj |-> s, status |-> "ImplementorError"]
    ELSE [obj |-> [s EXCEPT !.location = location], status |-> OK]

\* the next keyword argument of a constructor: the setter runs unless an
\* earlier one raised or the argument is None
InitStep(r, arg, Setter(_, _)) ==
    IF r.status # OK \/ arg = None THEN r ELSE Setter(r.obj, arg)

\* Session.__init__ with keyword arguments kw
Session_init(kw) ==
    LET r0 == [obj |-> Session_new, status |-> OK]
        r1 == InitStep(r0, kw.start_date, Session_set_start_date)
        r2 == InitStep(r1, kw.end_date, Session_set_end_date)
        r3 == InitStep(r2, kw.weekdays, Session_set_weekdays)
        r4 == InitStep(r3, kw.start_time, Session_set_start_time)
        r5 == InitStep(r4, kw.end_time, Session_set_end_time)
        r6 == InitStep(r5, kw.subterm, Session_set_subterm)
        r7 == InitStep(r6, kw.location, Session_set_location)
    IN [status |-> r7.status, val |-> IF r7.status = OK THEN r7.obj ELSE None]

\* obj[key] on a dict
DictGet(obj, key) ==
    IF key \in DOMAIN obj
    THEN [status |-> OK, val |-> obj[key]]
    ELSE [status |-> "KeyError", val |-> None]

\* Session._to_json: the fields themselves under the seven keys
Session_to_json(s) ==
    [scheduleStartDate |-> s.start_date,
     scheduleEndDate |-> s.end_date,
     scheduleWeekdays |-> s.weekdays,
     scheduleStartTime |-> s.start_time,
     scheduleEndTime |-> s.end_time,
     scheduleSubterm |-> s.subterm,
     scheduleLocation |-> s.location]

\* the keys Session._from_json reads, in the order it reads them
Session_from_json_keys ==
    <<"scheduleStartDate", "scheduleEndDate", "scheduleDays",
      "scheduleStartTime", "scheduleEndTime", "scheduleSubterms",
      "scheduleLocation">>

\* Conv(obj[key]): the lookup may raise KeyError, then the conversion is called
\* with the one value
JsonArg(obj, key, Conv(_)) ==
    LET k == DictGet(obj, key) IN
    IF k.status # OK THEN k ELSE Conv(<<k.val>>)

\* Session._from_json(obj): the keyword arguments are evaluated in order, the
\* first exception ends the call, and then Session(...) is built
Session_from_json(obj) ==
    IF obj = None THEN [status |-> OK, val |-> None]
    ELSE
    LET K == Session_from_json_keys
        a == <<JsonArg(obj, K[1], Date_from_json),
               JsonArg(obj, K[2], Date_from_json),
               JsonArg(obj, K[3], Weekdays_from_json),
               JsonArg(obj, K[4], Time_from_json),
               JsonArg(obj, K[5], Time_from_json),
               JsonArg(obj, K[6], Subterm_from_json),
               DictGet(obj, K[7])>>
        bad == {i \in 1..7 : a[i].status # OK}
    IN IF bad # {}
       THEN [status |-> a[CHOOSE i \in bad : \A j \in bad : i <= j].status,
             val |-> None]
       ELSE Session_init([start_date |-> a[1].val, end_date |-> a[2].val,
                          weekdays |-> a[3].val, start_time |-> a[4].val,
                          end_time |-> a[5].val, subterm |-> a[6].val,
                          location |-> a[7].val])

\* a Weekdays field by value: Weekdays.__eq__ compares the _days
WeekdaysValue(w) ==
    IF w.type = "Weekdays" THEN FreshWeekdays(WeekdaysDays(w)) ELSE w

\* Session.__eq__: the two field tuples are equal
Session_eq_key(s) ==
    <<WeekdaysValue(s.weekdays), s.start_time, s.end_time, s.subterm,
      s.location, s.start_date, s.end_date>>

Session_eq(a, b) == Session_eq_key(a) = Session_eq_key(b)

\* Session.__hash__: the hash of the field tuple, taken to be free of
\* collisions; Weekdays.__hash__ hashes the sorted days
Session_hash(s) ==
    <<s.start_date, s.end_date, WeekdaysValue(s.weekdays), s.start_time,
      s.end_time, s.subterm, s.location>>

---------------------------------------------------------------------------
(* Schedule: a Python set of Sessions.  An entry keeps the reference to the
   Session and the hash the Session had when it was inserted. *)

ScheduleIds == {1, 2}

\* `session in self._sessions`: an entry of equal hash that is the same object
\* or an equal one
Schedule_contains(entries, sid) ==
    \E e \in entries :
        /\ e.hash = Session_hash(sessions[sid])
        /\ (e.ref = sid \/ Session_eq(sessions[e.ref], sessions[sid]))

\* Schedule.add_session finding only the very object it is given, as a set
\* of objects without __eq__ and __hash__ would
Schedule_add_session_by_identity(entries, sid) ==
    LET found == \E e \in entries : e.ref = sid IN
    [sessions |-> IF found THEN entries
                  ELSE entries
                       \cup {[ref |-> sid, hash |-> Session_hash(sessions[sid])]},
     status |-> OK, warned |-> found]

\* Schedule.add_session
Schedule_add_session(entries, sid) ==
    LET found == Schedule_contains(entries, sid) IN
    [sessions |-> IF found THEN entries
                  ELSE entries
                       \cup {[ref |-> sid, hash |-> Session_hash(sessions[sid])]},
     status |-> OK, warned |-> found]

\* Schedule.__init__(sessions): add_session for each element of the list
RECURSIVE Schedule_init_from(_, _, _, _)
Schedule_init_from(entries, lst, i, warned) ==
    IF i > Len(lst)
    THEN [sessions |-> entries, status |-> OK, warned |-> warned]
    ELSE LET r == Schedule_add_session(entries, lst[i]) IN
         Schedule_init_from(r.sessions, lst, i + 1, warned \/ r.warned)

Schedule_init(lst) == Schedule_init_from({}, lst, 1, FALSE)

\* Schedule.__eq__: the two sets are equal, that is, of one size and every
\* entry of the first found in the second by its stored hash
Schedule_eq(a, b) ==
    /\ Cardinality(schedules[a].sessions) = Cardinality(schedules[b].sessions)
    /\ \A e \in schedules[a].sessions : \E f \in schedules[b].sessions :
           /\ f.hash = e.hash
           /\ (f.ref = e.ref \/ Session_eq(sessions[f.ref], sessions[e.ref]))

---------------------------------------------------------------------------
(* Comparison of Python values, as the tuple comparisons of __eq__ and
   __lt__ use it.  The operands ordered here are numbers, strings, lists and
   sets of these; `<` with None on either side, or between two values of
   different kinds, raises TypeError. *)

IsNumber(v) == v.type \in {"int", "bool"}
NumberValue(v) == IF v.type = "bool" THEN (IF v.val THEN 1 ELSE 0) ELSE v.val

RECURSIVE PyEq(_, _)
PyEq(u, v) ==
    IF IsNumber(u) /\ IsNumber(v) THEN NumberValue(u) = NumberValue(v)
    ELSE IF u.type = "list" /\ v.type = "list"
    THEN /\ Len(u.items) = Len(v.items)
         /\ \A i \in 1..Len(u.items) : PyEq(u.items[i], v.items[i])
    ELSE IF u.type = "Schedule" /\ v.type = "Schedule"
    THEN u.id = v.id \/ Schedule_eq(u.id, v.id)
    ELSE u = v

\* x < y for two sequences of values: the first place where they differ
\* decides, and without one the shorter is less
RECURSIVE PyLt(_, _), SeqLt(_, _)
SeqLt(x, y) ==
    LET n == IF Len(x) < Len(y) THEN Len(x) ELSE Len(y)
        diff == {i \in 1..n : ~PyEq(x[i], y[i])}
    IN IF diff = {}
       THEN [status |-> OK, val |-> Len(x) < Len(y)]
       ELSE LET i == CHOOSE i \in diff : \A j \in diff : i <= j IN
            PyLt(x[i], y[i])

PyLt(u, v) ==
    IF IsNumber(u) /\ IsNumber(v)
    THEN [status |-> OK, val |-> NumberValue(u) < NumberValue(v)]
    ELSE IF u.type = "str" /\ v.type = "str"
    THEN [status |-> OK, val |-> SeqLess(u.chars, v.chars)]
    ELSE IF u.type = "list" /\ v.type = "list"
    THEN SeqLt(u.items, v.items)
    ELSE IF u.type = "set" /\ v.type = "set"
    THEN [status |-> OK, val |-> u.elems \subseteq v.elems /\ u.elems # v.elems]
    ELSE IF u.type = "Time" /\ v.type = "Time"
    THEN [status |-> OK, val |-> Time_lt(u, v)]
    ELSE IF u.type = "Date" /\ v.type = "Date"
    THEN [status |-> OK, val |-> Date_lt(u, v)]
    ELSE IF u.type = "Subterm" /\ v.type = "Subterm"
    THEN [status |-> OK, val |-> Subterm_lt(u, v)]
    ELSE IF u.type = "Weekdays" /\ v.type = "Weekdays"
    THEN [status |-> OK, val |-> Weekdays_lt(u.days, v.days)]
    ELSE [status |-> "TypeError", val |-> FALSE]

---------------------------------------------------------------------------
(* The order of Sessions and of Schedules *)

\* Session.__lt__: the two field tuples compared
Session_lt(a, b) == SeqLt(Session_eq_key(a), Session_eq_key(b))

\* sorted(self._sessions): the set is iterated in an order of its own, and
\* the sort leaves no Session before one it is less than; a comparison that
\* raises ends the sort.  The result is a list of Session identities.
Schedule_sorted(k) ==
    LET E == schedules[k].sessions
        raised == \E x, y \in E :
                      x # y /\ Session_lt(sessions[x.ref],
                                          sessions[y.ref]).status # OK
    IN IF raised THEN {[status |-> "TypeError", val |-> <<>>]}
       ELSE {[status |-> OK, val |-> [i \in DOMAIN p |-> p[i].ref]] :
                p \in {q \in [1..Cardinality(E) -> E] :
                          /\ \A i, j \in DOMAIN q : i # j => q[i] # q[j]
                          /\ \A i \in 1..(Cardinality(E) - 1) :
                                 ~Session_lt(sessions[q[i + 1].ref],
                                             sessions[q[i].ref]).val}}

\* x < y for two lists of Sessions: the first place where the two are
\* neither the same object nor equal decides, and without one the shorter
\* list is less
SessionList_lt(x, y) ==
    LET n == IF Len(x) < Len(y) THEN Len(x) ELSE Len(y)
        diff == {i \in 1..n :
                    x[i] # y[i] /\ ~Session_eq(sessions[x[i]], sessions[y[i]])}
    IN IF diff = {}
       THEN [status |-> OK, val |-> Len(x) < Len(y)]
       ELSE LET i == CHOOSE i \in diff : \A j \in diff : i <= j IN
            Session_lt(sessions[x[i]], sessions[y[i]])

\* Schedule.__le__: sorted(self._sessions) < sorted(other._sessions); the
\* results it may give
Schedule_le(a, b) ==
    {IF sa.status # OK THEN [status |-> sa.status, val |-> FALSE]
     ELSE IF sb.status # OK THEN [status |-> sb.status, val |-> FALSE]
     ELSE SessionList_lt(sa.val, sb.val) :
        sa \in Schedule_sorted(a), sb \in Schedule_sorted(b)}

\* what functools.total_ordering derives from __le__:
\* a < b is (a <= b and a != b), a >= b is (not a <= b or a == b)
Schedule_lt(a, b) ==
    {IF r.status # OK THEN r
     ELSE [status |-> OK, val |-> r.val /\ ~(a = b \/ Schedule_eq(a, b))] :
        r \in Schedule_le(a, b)}

Schedule_ge(a, b) ==
    {IF r.status # OK THEN r
     ELSE [status |-> OK, val |-> ~r.val \/ a = b \/ Schedule_eq(a, b)] :
        r \in Schedule_le(a, b)}

---------------------------------------------------------------------------
(* Course *)

CourseIds == {"c1", "c2"}

\* the attributes class Course defines
CourseMethods ==
    {"_from_json", "__init__", "set_code", "set_name", "set_description",
     "set_schedule", "set_instructors", "set_num_credits",
     "set_enrollment_status", "set_num_seats_filled", "set_num_seats_total",
     "set_waitlist_length", "set_sort_key", "set_mutual_exclusion_key",
     "_check_valid", "_to_json", "__eq__", "__lt__", "__hash__", "__str__"}

\* Course.__init__ with no arguments
Course_new ==
    [code |-> None, name |-> None, description |-> None, schedule |-> None,
     instructors |-> None, num_credits |-> None, enrollment_status |-> None,
     num_seats_filled |-> None, num_seats_total |-> None,
     waitlist_length |-> None, sort_key |-> None,
     mutual_exclusion_key |-> None]

\* util.is_primitive: a JSON primitive
IsPrimitive(v) == v.type \in {"str", "int", "float", "bool", "NoneType"}

Course_set_code(c, code) ==
    IF code.type # "str"
    THEN [obj |-> c, status |-> "ImplementorError"]
    ELSE [obj |-> [c EXCEPT !.code = code], status |-> OK]

Course_set_name(c, name) ==
    IF name.type # "str"
    THEN [obj |-> c, status |-> "ImplementorError"]
    ELSE [obj |-> [c EXCEPT !.name = name], status |-> OK]

\* set_schedule stores the reference it is given
Course_set_schedule(c, schedule) ==
    IF schedule.type # "Schedule"
    THEN [obj |-> c, status |-> "ImplementorError"]
    ELSE [obj |-> [c EXCEPT !.schedule = schedule], status |-> OK]

\* the elements a for loop draws from its argument: the items of a list, the
\* characters of a string
Elements(v) ==
    IF v.type = "str" THEN [i \in 1..Len(v.chars) |-> Str(<<v.chars[i]>>)]
    ELSE v.items

\* Course.set_instructors: the field is set to an empty set first; then the
\* loop adds the elements one by one, raising at the first that is no
\* string, and warns of an element it has added before.  A for loop over
\* something that is not iterable raises TypeError.
Course_set_instructors(c, instructors) ==
    IF instructors.type \notin {"list", "str"}
    THEN [obj |-> [c EXCEPT !.instructors = Set({})], status |-> "TypeError",
          warned |-> FALSE]
    ELSE
    LET e == Elements(instructors)
        bad == {i \in 1..Len(e) : e[i].type # "str"}
        n == IF bad = {} THEN Len(e)
             ELSE (CHOOSE i \in bad : \A j \in bad : i <= j) - 1
    IN [obj |-> [c EXCEPT !.instructors = Set({e[i] : i \in 1..n})],
        status |-> IF bad = {} THEN OK ELSE "ImplementorError",
        warned |-> \E i, j \in 1..n : i < j /\ e[i] = e[j]]

Course_set_sort_key(c, sort_key) ==
    IF sort_key.type # "list"
    THEN [obj |-> c, status |-> "ImplementorError"]
    ELSE IF \E i \in 1..Len(sort_key.items) : ~IsPrimitive(sort_key.items[i])
    THEN [obj |-> c, status |-> "ImplementorError"]
    ELSE [obj |-> [c EXCEPT !.sort_key = sort_key], status |-> OK]

\* Course._check_valid
Course_check_valid(c) == IF c.code = None THEN "ImplementorError" ELSE OK

\* the tuple Course.__lt__ compares, with the code ahead of the sort key
Course_lt_key_code_first(c) ==
    <<c.code, c.sort_key, c.name, c.description, c.schedule, c.instructors,
      c.num_credits, c.enrollment_status, c.num_seats_filled,
      c.num_seats_total, c.waitlist_length, c.mutual_exclusion_key>>

\* the tuple Course.__lt__ compares
Course_lt_key(c) ==
    <<c.sort_key, c.code, c.name, c.description, c.schedule, c.instructors,
      c.num_credits, c.enrollment_status, c.num_seats_filled,
      c.num_seats_total, c.waitlist_length, c.mutual_exclusion_key>>

\* Course.__eq__: the two field tuples are equal
Course_eq_key(c) ==
    <<c.code, c.name, c.description, c.schedule, c.instructors,
      c.num_credits, c.enrollment_status, c.num_seats_filled,
      c.num_seats_total, c.waitlist_length, c.sort_key,
      c.mutual_exclusion_key>>

Course_eq(a, b) ==
    \A i \in 1..Len(Course_eq_key(a)) :
        PyEq(Course_eq_key(a)[i], Course_eq_key(b)[i])

\* Course.__lt__
Course_lt(a, b) == SeqLt(Course_lt_key(a), Course_lt_key(b))

---------------------------------------------------------------------------
(* Term *)

Term(code, name, sort_key) ==
    [type |-> "Term", code |-> code, name |-> name, sort_key |-> sort_key]

\* Term.__init__
Term_init(code, name, sort_key) ==
    IF code.type # "str" THEN [status |-> "ImplementorError", val |-> None]
    ELSE IF name.type # "str"
    THEN [status |-> "ImplementorError", val |-> None]
    ELSE IF sort_key.type # "list"
    THEN [status |-> "ImplementorError", val |-> None]
    ELSE IF \E i \in 1..Len(sort_key.items) : ~IsPrimitive(sort_key.items[i])
    THEN [status |-> "ImplementorError", val |-> None]
    ELSE [status |-> OK, val |-> Term(code, name, sort_key)]

---------------------------------------------------------------------------
(* ScraperResult.  A dict is the sequence of its entries in insertion
   order. *)

Dict(entries) == [type |-> "dict", entries |-> entries]

DictKeys(d) == {d.entries[i].key : i \in 1..Len(d.entries)}

\* d[key] = val
DictSet(d, key, val) ==
    IF key \in DictKeys(d)
    THEN Dict([i \in 1..Len(d.entries) |->
                  IF d.entries[i].key = key
                  THEN [key |-> key, val |-> val] ELSE d.entries[i]])
    ELSE Dict(Append(d.entries, [key |-> key, val |-> val]))

\* d[key] for a key of d
DictValue(d, key) ==
    LET i == CHOOSE i \in 1..Len(d.entries) : d.entries[i].key = key IN
    d.entries[i].val

\* d1 == d2 for two dicts of Courses: the same keys, and under each key the
\* same object or equal Courses
DictEq(d1, d2) ==
    /\ DictKeys(d1) = DictKeys(d2)
    /\ \A k \in DictKeys(d1) :
           \/ DictValue(d1, k) = DictValue(d2, k)
           \/ Course_eq(courses[DictValue(d1, k).id],
                        courses[DictValue(d2, k).id])

\* the elements a for loop draws from a list, or from a dict (its keys)
Iterate(v) ==
    IF v.type = "dict"
    THEN [i \in 1..Len(v.entries) |-> v.entries[i].key]
    ELSE v.items

\* ScraperResult.__init__ with no arguments
ScraperResult_new == [term |-> None, courses |-> Dict(<<>>)]

ScraperResult_set_term(r, term) ==
    IF term.type # "Term"
    THEN [obj |-> r, status |-> "ImplementorError", warned |-> FALSE]
    ELSE [obj |-> [r EXCEPT !.term = term], status |-> OK, warned |-> FALSE]

\* ScraperResult.add_course: course.get_code() raises AttributeError unless
\* class Course defines get_code
ScraperResult_add_course(r, course) ==
    IF course.type # "Course"
    THEN [obj |-> r, status |-> "ImplementorError", warned |-> FALSE]
    ELSE IF "get_code" \notin CourseMethods
    THEN [obj |-> r, status |-> "AttributeError", warned |-> FALSE]
    ELSE LET code == courses[course.id].code IN
         [obj |-> [r EXCEPT !.courses = DictSet(r.courses, code, course)],
          status |-> OK, warned |-> code \in DictKeys(r.courses)]

\* ScraperResult.__init__(term, courses)
RECURSIVE ScraperResult_init_from(_, _, _, _)
ScraperResult_init_from(r, elems, i, warned) ==
    IF i > Len(elems)
    THEN [status |-> OK, val |-> r, warned |-> warned]
    ELSE LET a == ScraperResult_add_course(r, elems[i]) IN
         IF a.status # OK
         THEN [status |-> a.status, val |-> None, warned |-> warned]
         ELSE ScraperResult_init_from(a.obj, elems, i + 1, warned \/ a.warned)

ScraperResult_init(term, course_list) ==
    LET t == IF term = None
             THEN [obj |-> ScraperResult_new, status |-> OK]
             ELSE ScraperResult_set_term(ScraperResult_new, term)
    IN IF t.status # OK
       THEN [status |-> t.status, val |-> None, warned |-> FALSE]
       ELSE IF course_list = None
       THEN [status |-> OK, val |-> t.obj, warned |-> FALSE]
       ELSE ScraperResult_init_from(t.obj, Iterate(course_list), 1, FALSE)

\* ScraperResult._to_json: the dict of courses and the Term themselves
ScraperResult_to_json(r) == [courses |-> r.courses, term |-> r.term]

\* ScraperResult._from_json is a static method declared with the parameters
\* (self, obj): a call raises TypeError unless it passes exactly two
\* arguments
ScraperResult_from_json(args) ==
    IF Len(args) # 2
    THEN [status |-> "TypeError", val |-> None, warned |-> FALSE]
    ELSE LET t == DictGet(args[2], "term")
             c == DictGet(args[2], "courses")
         IN IF t.status # OK
            THEN [status |-> t.status, val |-> None, warned |-> FALSE]
            ELSE IF c.status # OK
            THEN [status |-> c.status, val |-> None, warned |-> FALSE]
            ELSE ScraperResult_init(t.val, c.val)

\* ScraperResult.__eq__
ScraperResult_eq(a, b) == DictEq(a.courses, b.courses) /\ a.term = b.term

---------------------------------------------------------------------------
(* The state after construction, and the calls *)

Outcome(op, target, args, status, warned, ret) ==
    [op |-> op, target |-> target, args |-> args, status |-> status,
     warned |-> warned, ret |-> ret]

Init ==
    /\ weekdays = [w \in WeekdaysIds |-> [days |-> {}]]
    /\ sessions = [s \in SessionIds |-> Session_new]
    /\ schedules = [k \in ScheduleIds |-> [sessions |-> {}]]
    /\ courses = [c \in CourseIds |-> Course_new]
    /\ result = ScraperResult_new
    /\ outcome = Outcome("init", None, <<>>, OK, FALSE, None)

\* w.add_day(day)
AddDay(w, day) ==
    LET r == Weekdays_add_day(weekdays[w].days, day) IN
    /\ weekdays' = [weekdays EXCEPT ![w].days = r.days]
    /\ outcome' = Outcome("add_day", Ref("Weekdays", w), <<day>>, r.status,
                          r.warned, None)
    /\ UNCHANGED <<sessions, schedules, courses, result>>

\* s.set_start_date(d), s.set_end_date(d), s.set_dates(d1, d2)
SetStartDate(s, d) ==
    LET r == Session_set_start_date(sessions[s], d) IN
    /\ sessions' = [sessions EXCEPT ![s] = r.obj]
    /\ outcome' = Outcome("set_start_date", Ref("Session", s), <<d>>,
                          r.status, FALSE, None)
    /\ UNCHANGED <<weekdays, schedules, courses, result>>

SetEndDate(s, d) ==
    LET r == Session_set_end_date(sessions[s], d) IN
    /\ sessions' = [sessions EXCEPT ![s] = r.obj]
    /\ outcome' = Outcome("set_end_date", Ref("Session", s), <<d>>,
                          r.status, FALSE, None)
    /\ UNCHANGED <<weekdays, schedules, courses, result>>

SetDates(s, d1, d2) ==
    LET r == Session_set_dates(sessions[s], d1, d2) IN
    /\ sessions' = [sessions EXCEPT ![s] = r.obj]
    /\ outcome' = Outcome("set_dates", Ref("Session", s), <<d1, d2>>,
                          r.status, FALSE, None)
    /\ UNCHANGED <<weekdays, schedules, courses, result>>

\* s.set_start_time(t), s.set_end_time(t), s.set_times(t1, t2)
SetStartTime(s, t) ==
    LET r == Session_set_start_time(sessions[s], t) IN
    /\ sessions' = [sessions EXCEPT ![s] = r.obj]
    /\ outcome' = Outcome("set_start_time", Ref("Session", s), <<t>>,
                          r.status, FALSE, None)
    /\ UNCHANGED <<weekdays, schedules, courses, result>>

SetEndTime(s, t) ==
    LET r == Session_set_end_time(sessions[s], t) IN
    /\ sessions' = [sessions EXCEPT ![s] = r.obj]
    /\ outcome' = Outcome("set_end_time", Ref("Session", s), <<t>>,
                          r.status, FALSE, None)
    /\ UNCHANGED <<weekdays, schedules, courses, result>>

SetTimes(s, t1, t2) ==
    LET r == Session_set_times(sessions[s], t1, t2) IN
    /\ sessions' = [sessions EXCEPT ![s] = r.obj]
    /\ outcome' = Outcome("set_times", Ref("Session", s), <<t1, t2>>,
                          r.status, FALSE, None)
    /\ UNCHANGED <<weekdays, schedules, courses, result>>

\* s.set_weekdays(w), s.set_subterm(st), s.set_location(loc)
SetWeekdays(s, w) ==
    LET r == Session_set_weekdays(sessions[s], w) IN
    /\ sessions' = [sessions EXCEPT ![s] = r.obj]
    /\ outcome' = Outcome("set_weekdays", Ref("Session", s), <<w>>,
                          r.status, FALSE, None)
    /\ UNCHANGED <<weekdays, schedules, courses, result>>

SetSubterm(s, st) ==
    LET r == Session_set_subterm(sessions[s], st) IN
    /\ sessions' = [sessions EXCEPT ![s] = r.obj]
    /\ outcome' = Outcome("set_subterm", Ref("Session", s), <<st>>,
                          r.status, FALSE, None)
    /\ UNCHANGED <<weekdays, schedules, courses, result>>

SetLocation(s, loc) ==
    LET r == Session_set_location(sessions[s], loc) IN
    /\ sessions' = [sessions EXCEPT ![s] = r.obj]
    /\ outcome' = Outcome("set_location", Ref("Session", s), <<loc>>,
                          r.status, FALSE, None)
    /\ UNCHANGED <<weekdays, schedules, courses, result>>

---------------------------------------------------------------------------
(* SpecSession: a scraper setting the dates, times and location of one
   Session *)

\* "M"
DayM == Str(<<77>>)
\* "A"
LocationA == Str(<<65>>)

Hours == {9, 10}
TimeArgs == {Time(h, m) : h \in Hours, m \in 0..MaxMinute}
DateArgs == {Date(2024, 1, 31), Date(2024, 2, 1)}

NextSession ==
    \/ \E d \in DateArgs \cup {None} : SetStartDate(1, d)
    \/ \E d \in DateArgs \cup {None} : SetEndDate(1, d)
    \/ \E d1, d2 \in DateArgs \cup {None} : SetDates(1, d1, d2)
    \/ \E t \in TimeArgs \cup {None} : SetStartTime(1, t)
    \/ \E t \in TimeArgs \cup {None} : SetEndTime(1, t)
    \/ \E t1, t2 \in TimeArgs \cup {None} : SetTimes(1, t1, t2)
    \/ \E loc \in {LocationA, None} : SetLocation(1, loc)

SpecSession == Init /\ [][NextSession]_vars

---------------------------------------------------------------------------
(* SpecWeekdays: a scraper building one Weekdays from strings *)

\* a Session holds a reference to Weekdays w
WeekdaysReferenced(w) ==
    \E s \in SessionIds : sessions[s].weekdays = Ref("Weekdays", w)

\* w = Weekdays(days): the name w is bound to the new object unless the
\* constructor raises
NewWeekdays(w, days) ==
    LET r == Weekdays_init(days) IN
    /\ ~WeekdaysReferenced(w)
    /\ weekdays' = IF r.status = OK
                   THEN [weekdays EXCEPT ![w].days = r.days]
                   ELSE weekdays
    /\ outcome' = Outcome("Weekdays", Ref("Weekdays", w), <<days>>, r.status,
                          r.warned, None)
    /\ UNCHANGED <<sessions, schedules, courses, result>>

\* the characters "M", "T", "m" and "X"
DayArgChars == {77, 84, 109, 88}
DayArgs == {Str(c) : c \in SeqsUpTo(DayArgChars, MaxDayLen)}

NextWeekdays ==
    \/ \E day \in DayArgs : AddDay("w1", day)
    \/ \E days \in DayArgs \cup {None} : NewWeekdays("w1", days)

SpecWeekdays == Init /\ [][NextWeekdays]_vars

---------------------------------------------------------------------------
(* SpecWeekdaysOrder: a scraper building two Weekdays day by day, writing
   them out and comparing them *)

\* w._to_json()
WeekdaysToJson(w) ==
    \E r \in Weekdays_to_json(weekdays[w].days) :
        /\ outcome' = Outcome("Weekdays._to_json", Ref("Weekdays", w), <<>>,
                              OK, FALSE, r)
        /\ UNCHANGED <<weekdays, sessions, schedules, courses, result>>

\* a < b for two Weekdays
WeekdaysLt(a, b) ==
    /\ outcome' = Outcome("Weekdays.__lt__", Ref("Weekdays", a),
                          <<Ref("Weekdays", b)>>, OK, FALSE,
                          BoolVal(Weekdays_lt(weekdays[a].days,
                                              weekdays[b].days)))
    /\ UNCHANGED <<weekdays, sessions, schedules, courses, result>>

\* "M", "T", "F" and "t"
OrderDayArgs == {Str(<<77>>), Str(<<84>>), Str(<<70>>), Str(<<116>>)}

NextWeekdaysOrder ==
    \/ \E w \in WeekdaysIds, day \in OrderDayArgs : AddDay(w, day)
    \/ \E w \in WeekdaysIds : WeekdaysToJson(w)
    \/ \E a, b \in WeekdaysIds : WeekdaysLt(a, b)

SpecWeekdaysOrder == Init /\ [][NextWeekdaysOrder]_vars

---------------------------------------------------------------------------
(* SpecSubterm: a scraper building Subterms, setting them in Sessions and
   comparing them *)

\* Subterm(*args)
NewSubterm(args) ==
    LET r == Subterm_init(args) IN
    /\ outcome' = Outcome("Subterm", None, args, r.status, FALSE, r.val)
    /\ UNCHANGED <<weekdays, sessions, schedules, courses, result>>

\* a.subterm == b.subterm for the Subterms of two Sessions
SubtermEq(a, b) ==
    /\ outcome' = Outcome("Subterm.__eq__", sessions[a].subterm,
                          <<sessions[b].subterm>>, OK, FALSE,
                          BoolVal(Subterm_eq(sessions[a].subterm,
                                             sessions[b].subterm)))
    /\ UNCHANGED <<weekdays, sessions, schedules, courses, result>>

\* the eight named constants
NamedSubterms ==
    {FullTerm, FirstHalfTerm, SecondHalfTerm, FirstThirdTerm, MiddleThirdTerm,
     LastThirdTerm, FirstAndMiddleThirdTerms, MiddleAndLastThirdTerms}

\* True, False, 1 and 0
SubtermArgValues == {BoolVal(TRUE), BoolVal(FALSE), IntVal(1), IntVal(0)}

\* Session 1 is given what the last Subterm(...) call returned, Session 2 a
\* named constant
NextSubterm ==
    \/ \E args \in SeqsUpTo(SubtermArgValues, MaxSubterms) : NewSubterm(args)
    \/ outcome.op = "Subterm" /\ SetSubterm(1, outcome.ret)
    \/ \E st \in NamedSubterms : SetSubterm(2, st)
    \/ SubtermEq(1, 2)

SpecSubterm == Init /\ [][NextSubterm]_vars

---------------------------------------------------------------------------
(* SpecSchedule: a scraper building Sessions and adding them to a Schedule;
   it leaves a Session, and the Weekdays it holds, alone once the Session
   is in the Schedule *)

\* k.add_session(s)
AddSession(k, s) ==
    LET r == Schedule_add_session(schedules[k].sessions, s) IN
    /\ schedules' = [schedules EXCEPT ![k].sessions = r.sessions]
    /\ outcome' = Outcome("add_session", Ref("Schedule", k),
                          <<Ref("Session", s)>>, r.status, r.warned, None)
    /\ UNCHANGED <<weekdays, sessions, courses, result>>

\* a Course holds a reference to Schedule k
ScheduleReferenced(k) ==
    \E c \in CourseIds : courses[c].schedule = Ref("Schedule", k)

\* k = Schedule(sessions=lst)
NewSchedule(k, lst) ==
    LET r == Schedule_init(lst) IN
    /\ ~ScheduleReferenced(k)
    /\ schedules' = [schedules EXCEPT ![k].sessions = r.sessions]
    /\ outcome' = Outcome("Schedule", Ref("Schedule", k),
                          <<List([i \in 1..Len(lst) |-> Ref("Session", lst[i])])>>,
                          r.status, r.warned, None)
    /\ UNCHANGED <<weekdays, sessions, courses, result>>

\* Session._from_json(s._to_json())
SessionRoundTrip(s) ==
    LET r == Session_from_json(Session_to_json(sessions[s])) IN
    /\ outcome' = Outcome("Session._from_json", Ref("Session", s), <<>>,
                          r.status, FALSE, r.val)
    /\ UNCHANGED <<weekdays, sessions, schedules, courses, result>>

\* Session s is in a Schedule
SessionAdded(s) ==
    \E k \in ScheduleIds : \E e \in schedules[k].sessions : e.ref = s

\* Weekdays w is held by a Session that is in a Schedule
WeekdaysAdded(w) ==
    \E s \in SessionIds :
        SessionAdded(s) /\ sessions[s].weekdays = Ref("Weekdays", w)

NextSchedule ==
    \/ \E w \in WeekdaysIds : ~WeekdaysAdded(w) /\ AddDay(w, DayM)
    \/ \E s \in SessionIds, w \in WeekdaysIds :
           ~SessionAdded(s) /\ SetWeekdays(s, Ref("Weekdays", w))
    \/ \E s \in SessionIds : ~SessionAdded(s) /\ SetStartTime(s, Time(9, 0))
    \/ \E s \in SessionIds, t \in {Time(10, 0), Time(11, 0)} :
           ~SessionAdded(s) /\ SetEndTime(s, t)
    \/ \E s \in SessionIds : ~SessionAdded(s) /\ SetLocation(s, LocationA)
    \/ \E s \in SessionIds : AddSession(1, s)
    \/ \E lst \in SeqsUpTo(SessionIds, 2) : NewSchedule(1, lst)
    \/ \E s \in SessionIds :
           Session_check_valid(sessions[s]) = OK /\ SessionRoundTrip(s)

SpecSchedule == Init /\ [][NextSchedule]_vars

---------------------------------------------------------------------------
(* SpecResult: a scraper building two Courses and a ScraperResult *)

SetCode(c, code) ==
    LET r == Course_set_code(courses[c], code) IN
    /\ courses' = [courses EXCEPT ![c] = r.obj]
    /\ outcome' = Outcome("set_code", Ref("Course", c), <<code>>, r.status,
                          FALSE, None)
    /\ UNCHANGED <<weekdays, sessions, schedules, result>>

SetName(c, name) ==
    LET r == Course_set_name(courses[c], name) IN
    /\ courses' = [courses EXCEPT ![c] = r.obj]
    /\ outcome' = Outcome("set_name", Ref("Course", c), <<name>>, r.status,
                          FALSE, None)
    /\ UNCHANGED <<weekdays, sessions, schedules, result>>

SetSchedule(c, schedule) ==
    LET r == Course_set_schedule(courses[c], schedule) IN
    /\ courses' = [courses EXCEPT ![c] = r.obj]
    /\ outcome' = Outcome("set_schedule", Ref("Course", c), <<schedule>>,
                          r.status, FALSE, None)
    /\ UNCHANGED <<weekdays, sessions, schedules, result>>

SetInstructors(c, instructors) ==
    LET r == Course_set_instructors(courses[c], instructors) IN
    /\ courses' = [courses EXCEPT ![c] = r.obj]
    /\ outcome' = Outcome("set_instructors", Ref("Course", c),
                          <<instructors>>, r.status, r.warned, None)
    /\ UNCHANGED <<weekdays, sessions, schedules, result>>

SetSortKey(c, sort_key) ==
    LET r == Course_set_sort_key(courses[c], sort_key) IN
    /\ courses' = [courses EXCEPT ![c] = r.obj]
    /\ outcome' = Outcome("set_sort_key", Ref("Course", c), <<sort_key>>,
                          r.status, FALSE, None)
    /\ UNCHANGED <<weekdays, sessions, schedules, result>>

\* a < b for two Courses
CourseLt(a, b) ==
    LET r == Course_lt(courses[a], courses[b]) IN
    /\ outcome' = Outcome("Course.__lt__", Ref("Course", a),
                          <<Ref("Course", b)>>, r.status, FALSE,
                          IF r.status = OK THEN BoolVal(r.val) ELSE None)
    /\ UNCHANGED <<weekdays, sessions, schedules, courses, result>>

SetTerm(term) ==
    LET r == ScraperResult_set_term(result, term) IN
    /\ result' = r.obj
    /\ outcome' = Outcome("set_term", Ref("ScraperResult", 1), <<term>>,
                          r.status, r.warned, None)
    /\ UNCHANGED <<weekdays, sessions, schedules, courses>>

AddCourse(course) ==
    LET r == ScraperResult_add_course(result, course) IN
    /\ result' = r.obj
    /\ outcome' = Outcome("add_course", Ref("ScraperResult", 1), <<course>>,
                          r.status, r.warned, None)
    /\ UNCHANGED <<weekdays, sessions, schedules, courses>>

\* result = ScraperResult(term=term, courses=course_list): the name is bound
\* to the new object unless the constructor raises
NewResult(term, course_list) ==
    LET r == ScraperResult_init(term, course_list) IN
    /\ result' = IF r.status = OK THEN r.val ELSE result
    /\ outcome' = Outcome("ScraperResult", Ref("ScraperResult", 1),
                          <<term, course_list>>, r.status, r.warned, None)
    /\ UNCHANGED <<weekdays, sessions, schedules, courses>>

\* ScraperResult._from_json(result._to_json())
ResultRoundTrip ==
    LET r == ScraperResult_from_json(<<ScraperResult_to_json(result)>>) IN
    /\ outcome' = Outcome("ScraperResult._from_json",
                          Ref("ScraperResult", 1), <<>>, r.status, r.warned,
                          r.val)
    /\ UNCHANGED <<weekdays, sessions, schedules, courses, result>>

\* the codes "A" and "B", the name "N"
CodeArgs == {Str(<<65>>), Str(<<66>>)}
NameArgs == {Str(<<78>>)}
SortKeyArgs ==
    {List(k) : k \in SeqsUpTo({IntVal(1), IntVal(2)}, MaxSortKeyLen)}
\* Term(code="F", name="FA", sort_key=[1])
TermArg == Term_init(Str(<<70>>), Str(<<70, 65>>), List(<<IntVal(1)>>)).val
CourseRefs == {Ref("Course", c) : c \in CourseIds}

NextResult ==
    \/ \E c \in CourseIds, code \in CodeArgs \cup {None} : SetCode(c, code)
    \/ \E c \in CourseIds, name \in NameArgs \cup {None} : SetName(c, name)
    \/ \E c \in CourseIds, k \in SortKeyArgs \cup {None} : SetSortKey(c, k)
    \/ \E a, b \in CourseIds : CourseLt(a, b)
    \/ \E t \in {TermArg, None} : SetTerm(t)
    \/ \E c \in CourseRefs \cup {None} : AddCourse(c)
    \/ \E t \in {TermArg, None},
          l \in {None} \cup {List(q) : q \in SeqsUpTo(CourseRefs, 1)} :
           NewResult(t, l)
    \/ result.term # None /\ ResultRoundTrip

SpecResult == Init /\ [][NextResult]_vars

---------------------------------------------------------------------------
(* SpecCollections: a scraper filling the collections: the days of a
   Weekdays, the Sessions of a Schedule, the instructors of a Course and the
   Courses of the ScraperResult *)

\* the names "A" and "B", and 1, which is no name
InstructorArgs ==
    {None, Str(<<65, 66>>)}
    \cup {List(l) : l \in SeqsUpTo({Str(<<65>>), Str(<<66>>), IntVal(1)},
                                   MaxInstructors)}

NextCollections ==
    \/ \E day \in {DayM, Str(<<84>>), Str(<<109>>)} : AddDay("w1", day)
    \/ SetLocation(1, LocationA)
    \/ \E s \in SessionIds : AddSession(1, s)
    \/ \E i \in InstructorArgs : SetInstructors("c1", i)
    \/ SetCode("c1", Str(<<65>>))
    \/ AddCourse(Ref("Course", "c1"))

SpecCollections == Init /\ [][NextCollections]_vars

---------------------------------------------------------------------------
(* SpecSharing: a scraper that goes on using a Weekdays, a Session and a
   Schedule after handing them to a Session, a Schedule and a Course *)

NextSharing ==
    \/ \E day \in {DayM, Str(<<84>>)} : AddDay("w1", day)
    \/ \E s \in SessionIds : SetWeekdays(s, Ref("Weekdays", "w1"))
    \/ SetLocation(1, LocationA)
    \/ \E s \in SessionIds : AddSession(1, s)
    \/ SetSchedule("c1", Ref("Schedule", 1))
    \/ SetCode("c1", Str(<<65>>))
    \/ AddCourse(Ref("Course", "c1"))

SpecSharing == Init /\ [][NextSharing]_vars

---------------------------------------------------------------------------
(* SpecValidity: a scraper calling the setters of one Session, or of one
   Course, with good arguments and with bad ones *)

\* the scraper has not touched the Session, or the Course
SessionUntouched == sessions[1] = Session_new /\ weekdays["w1"].days = {}
CourseUntouched == courses["c1"] = Course_new

NextValidity ==
    \/ CourseUntouched /\ AddDay("w1", DayM)
    \/ CourseUntouched
       /\ \E w \in {Ref("Weekdays", "w1"), None} : SetWeekdays(1, w)
    \/ CourseUntouched /\ \E t \in {Time(10, 0), None} : SetStartTime(1, t)
    \/ CourseUntouched
       /\ \E t \in {Time(9, 0), Time(11, 0), None} : SetEndTime(1, t)
    \/ CourseUntouched
       /\ \E t \in {Time(9, 0), None} : SetTimes(1, t, Time(10, 0))
    \/ CourseUntouched
       /\ \E d \in {Date(2024, 2, 1), None} : SetStartDate(1, d)
    \/ CourseUntouched
       /\ \E d \in {Date(2024, 1, 31), None} : SetEndDate(1, d)
    \/ CourseUntouched
       /\ \E d \in {Date(2024, 1, 31), None} : SetDates(1, d, Date(2024, 2, 1))
    \/ CourseUntouched /\ \E st \in {FirstHalfTerm, None} : SetSubterm(1, st)
    \/ CourseUntouched /\ \E loc \in {LocationA, None} : SetLocation(1, loc)
    \/ SessionUntouched
       /\ \E code \in {Str(<<65>>), Str(<<66>>), IntVal(1), None} :
              SetCode("c1", code)
    \/ SessionUntouched /\ \E name \in {Str(<<78>>), None} : SetName("c1", name)
    \/ SessionUntouched
       /\ \E k \in {Ref("Schedule", 1), None} : SetSchedule("c1", k)
    \/ SessionUntouched
       /\ \E i \in {List(<<Str(<<65>>)>>), List(<<IntVal(1)>>), None} :
              SetInstructors("c1", i)
    \/ SessionUntouched
       /\ \E k \in {List(<<IntVal(1)>>), List(<<List(<<>>)>>), None} :
              SetSortKey("c1", k)

SpecValidity == Init /\ [][NextValidity]_vars

---------------------------------------------------------------------------
(* SpecOrder: a scraper building two Schedules and comparing them; it
   leaves a Session alone once the Session is in a Schedule *)

\* a <= b, a < b, a >= b and a == b for two Schedules
ScheduleLe(a, b) ==
    \E r \in Schedule_le(a, b) :
        /\ outcome' = Outcome("Schedule.__le__", Ref("Schedule", a),
                              <<Ref("Schedule", b)>>, r.status, FALSE,
                              IF r.status = OK THEN BoolVal(r.val) ELSE None)
        /\ UNCHANGED <<weekdays, sessions, schedules, courses, result>>

ScheduleLt(a, b) ==
    \E r \in Schedule_lt(a, b) :
        /\ outcome' = Outcome("Schedule.__lt__", Ref("Schedule", a),
                              <<Ref("Schedule", b)>>, r.status, FALSE,
                              IF r.status = OK THEN BoolVal(r.val) ELSE None)
        /\ UNCHANGED <<weekdays, sessions, schedules, courses, result>>

ScheduleGe(a, b) ==
    \E r \in Schedule_ge(a, b) :
        /\ outcome' = Outcome("Schedule.__ge__", Ref("Schedule", a),
                              <<Ref("Schedule", b)>>, r.status, FALSE,
                              IF r.status = OK THEN BoolVal(r.val) ELSE None)
        /\ UNCHANGED <<weekdays, sessions, schedules, courses, result>>

ScheduleEq(a, b) ==
    /\ outcome' = Outcome("Schedule.__eq__", Ref("Schedule", a),
                          <<Ref("Schedule", b)>>, OK, FALSE,
                          BoolVal(a = b \/ Schedule_eq(a, b)))
    /\ UNCHANGED <<weekdays, sessions, schedules, courses, result>>

NextOrder ==
    \/ \E s \in SessionIds, t \in {Time(9, 0), Time(10, 0)} :
           ~SessionAdded(s) /\ SetStartTime(s, t)
    \/ \E s \in SessionIds : ~SessionAdded(s) /\ SetLocation(s, LocationA)
    \/ \E k \in ScheduleIds, s \in SessionIds : AddSession(k, s)
    \/ \E a, b \in ScheduleIds : ScheduleLe(a, b)
    \/ \E a, b \in ScheduleIds : ScheduleLt(a, b)
    \/ \E a, b \in ScheduleIds : ScheduleGe(a, b)
    \/ \E a, b \in ScheduleIds : ScheduleEq(a, b)

SpecOrder == Init /\ [][NextOrder]_vars

(* The properties checked *)
---------------------------------------------------------------------------
(* Properties of the Session setters, under SpecSession *)

\* the setters that set one end, or both ends, of a date or time range
RangeSetters ==
    {"set_start_time", "set_end_time", "set_start_date", "set_end_date",
     "set_times", "set_dates"}

\* t1 is before t2 by (hour, minute)
TimeBefore(t1, t2) ==
    t1.hour < t2.hour \/ (t1.hour = t2.hour /\ t1.minute < t2.minute)

\* C5: a range setter of Session that fails with a domain error leaves all
\* seven fields of the Session as they were before the call.
C5_SettersAtomicOnFailure ==
    [][(outcome'.op \in RangeSetters /\ outcome'.status = "ImplementorError")
        => sessions' = sessions]_vars

\* a range setter has failed on an ordering violation and left its argument
\* in the Session
C5_FailedSetterMutated ==
    /\ outcome.op = "set_end_time"
    /\ outcome.status = "ImplementorError"
    /\ outcome.args[1].type = "Time"
    /\ sessions[outcome.target.id].end_time = outcome.args[1]
    /\ ~TimeBefore(sessions[outcome.target.id].start_time, outcome.args[1])

\* C6: on a Session with start_time t1 and no end_time, set_end_time(t2)
\* fails with a domain error exactly when t2 <= t1 and succeeds exactly when
\* t1 < t2; symmetrically set_start_time(t1) on a Session with end_time t2
\* and no start_time.  Equal times are rejected.
C6_TimeOrderFailFast ==
    [][LET pre == sessions[outcome'.target.id]
           arg == outcome'.args[1]
       IN /\ (/\ outcome'.op = "set_end_time"
              /\ arg.type = "Time"
              /\ pre.start_time # None
              /\ pre.end_time = None)
             => outcome'.status =
                    IF TimeBefore(pre.start_time, arg)
                    THEN OK ELSE "ImplementorError"
          /\ (/\ outcome'.op = "set_start_time"
              /\ arg.type = "Time"
              /\ pre.end_time # None
              /\ pre.start_time = None)
             => outcome'.status =
                    IF TimeBefore(arg, pre.end_time)
                    THEN OK ELSE "ImplementorError"]_vars

\* set_end_time was called with the Session's own start time and was rejected
C6_EqualTimesRejected ==
    /\ outcome.op = "set_end_time"
    /\ outcome.args[1].type = "Time"
    /\ outcome.args[1] = sessions[outcome.target.id].start_time
    /\ outcome.status = "ImplementorError"

\* d1 is before d2 by (year, month, day)
DateBefore(d1, d2) ==
    \/ d1.year < d2.year
    \/ d1.year = d2.year /\ d1.month < d2.month
    \/ d1.year = d2.year /\ d1.month = d2.month /\ d1.day < d2.day

\* C16: in every state of a Session that constructor and setter calls can
\* reach, calls that failed with a domain error included, start_time <
\* end_time if both are set and start_date < end_date if both are set.
C16_SessionRangesOrdered ==
    \A s \in SessionIds :
        /\ (sessions[s].start_time # None /\ sessions[s].end_time # None)
           => TimeBefore(sessions[s].start_time, sessions[s].end_time)
        /\ (sessions[s].start_date # None /\ sessions[s].end_date # None)
           => DateBefore(sessions[s].start_date, sessions[s].end_date)

\* after a set_start_date that failed with the domain error, the Session
\* starts on the day it ends or later
C16_DatesOutOfOrder ==
    /\ outcome.op = "set_start_date"
    /\ outcome.status = "ImplementorError"
    /\ outcome.args[1].type = "Date"
    /\ sessions[1].start_date = outcome.args[1]
    /\ sessions[1].end_date # None
    /\ ~DateBefore(sessions[1].start_date, sessions[1].end_date)

\* C22: for every Session in a reachable state and every pair of Times
\* t1 < t2, set_times(t1, t2) succeeds and leaves start_time = t1 and
\* end_time = t2, whatever the two were before the call; likewise
\* set_dates(d1, d2) for every pair of Dates d1 < d2.
C22_ValidPairAlwaysAccepted ==
    /\ (/\ outcome.op = "set_times"
        /\ outcome.args[1].type = "Time"
        /\ outcome.args[2].type = "Time"
        /\ TimeBefore(outcome.args[1], outcome.args[2]))
       => /\ outcome.status = OK
          /\ sessions[outcome.target.id].start_time = outcome.args[1]
          /\ sessions[outcome.target.id].end_time = outcome.args[2]
    /\ (/\ outcome.op = "set_dates"
        /\ outcome.args[1].type = "Date"
        /\ outcome.args[2].type = "Date"
        /\ DateBefore(outcome.args[1], outcome.args[2]))
       => /\ outcome.status = OK
          /\ sessions[outcome.target.id].start_date = outcome.args[1]
          /\ sessions[outcome.target.id].end_date = outcome.args[2]

\* set_times(t1, t2) with t1 < t2 failed with the domain error: the Session
\* has the new start and an end time that is not after it
C22_ValidTimesRejected ==
    /\ outcome.op = "set_times"
    /\ outcome.args[1].type = "Time"
    /\ outcome.args[2].type = "Time"
    /\ TimeBefore(outcome.args[1], outcome.args[2])
    /\ outcome.status = "ImplementorError"
    /\ sessions[outcome.target.id].start_time = outcome.args[1]
    /\ sessions[outcome.target.id].end_time # outcome.args[2]

---------------------------------------------------------------------------
(* Properties of Weekdays, under SpecWeekdays *)

\* the seven day codes "M", "T", "W", "R", "F", "S", "U"
DayCodes == {Str(<<CHARS.chars[i]>>) : i \in 1..Len(CHARS.chars)}

\* C10: every element of a Weekdays' day set is one of the seven one-letter
\* uppercase day codes, and add_day with any other string (in either case)
\* fails with a domain error.
C10_OnlyValidDayCodes ==
    /\ \A w \in WeekdaysIds : weekdays[w].days \subseteq DayCodes
    /\ (outcome.op = "add_day" /\ Upper(outcome.args[1]) \notin DayCodes)
           => outcome.status = "ImplementorError"

\* add_day was given a string that is no day code and returned normally
C10_InvalidDayAccepted ==
    /\ outcome.op = "add_day"
    /\ Upper(outcome.args[1]) \notin DayCodes
    /\ outcome.status = OK
    /\ Upper(outcome.args[1]) \in weekdays[outcome.target.id].days

\* C11: add_day is idempotent: for a valid day code d in either case, the
\* call does not fail, puts the uppercase code in the day set and nothing
\* else, and logs a warning exactly when the code was already there; so a
\* second add_day(d) warns and leaves the Weekdays as the first call left it.
C11_AddDayIdempotent ==
    [][(outcome'.op = "add_day" /\ Upper(outcome'.args[1]) \in DayCodes)
       => LET w == outcome'.target.id
              d == Upper(outcome'.args[1])
          IN /\ outcome'.status = OK
             /\ weekdays'[w].days = weekdays[w].days \cup {d}
             /\ outcome'.warned <=> d \in weekdays[w].days
             /\ d \in weekdays[w].days => weekdays' = weekdays]_vars

\* add_day("m") on a Weekdays that held "M" already: a warning, no error, and
\* still the one day
C11_LowercaseDayReAdded ==
    /\ outcome.op = "add_day"
    /\ outcome.args[1] = Str(<<109>>)
    /\ outcome.status = OK
    /\ outcome.warned
    /\ weekdays[outcome.target.id].days = {DayM}

---------------------------------------------------------------------------
(* Properties of Subterm, under SpecSubterm *)

\* the arguments that are falsy: False and 0
FalsyArgs == {BoolVal(FALSE), IntVal(0)}

\* a non-empty tuple of booleans with at least one True
IncludesSomething(st) ==
    /\ st.type = "Subterm"
    /\ Len(st.subterms) > 0
    /\ \A i \in 1..Len(st.subterms) : st.subterms[i] \in BOOLEAN
    /\ \E i \in 1..Len(st.subterms) : st.subterms[i]

\* C12: Subterm(...) succeeds exactly when it is given at least one argument
\* and at least one truthy argument, and fails with a domain error otherwise;
\* every Subterm (one just built, a named constant, one held by a Session) is
\* a non-empty tuple of booleans with at least one True; and two Subterms are
\* equal exactly when their tuples are.
C12_SubtermIncludesSomething ==
    /\ outcome.op = "Subterm"
       => /\ outcome.status = OK
              <=> \E i \in 1..Len(outcome.args) : outcome.args[i] \notin FalsyArgs
          /\ outcome.status # OK => outcome.status = "ImplementorError"
          /\ outcome.status = OK => IncludesSomething(outcome.ret)
    /\ \A st \in NamedSubterms : IncludesSomething(st)
    /\ \A s \in SessionIds : IncludesSomething(sessions[s].subterm)
    /\ outcome.op = "Subterm.__eq__"
       => outcome.ret = BoolVal(outcome.target.subterms = outcome.args[1].subterms)
    /\ ~Subterm_eq(FirstHalfTerm, SecondHalfTerm)

\* Subterm(1, False), held by Session 1, was compared with SecondHalfTerm,
\* held by Session 2, and they differ
C12_HalvesDiffer ==
    /\ outcome.op = "Subterm.__eq__"
    /\ outcome.target = Subterm(<<TRUE, FALSE>>)
    /\ outcome.args[1] = SecondHalfTerm
    /\ outcome.ret = BoolVal(FALSE)

\* Subterm(False, 0) was rejected
C12_AllFalsyRejected ==
    /\ outcome.op = "Subterm"
    /\ outcome.args = <<BoolVal(FALSE), IntVal(0)>>
    /\ outcome.status = "ImplementorError"

---------------------------------------------------------------------------
(* Properties of Schedule and of the Session conversions, under SpecSchedule *)

\* the structurally distinct Sessions in Schedule k
StoredSessions(k) ==
    {Session_eq_key(sessions[e.ref]) : e \in schedules[k].sessions}

\* C2: Schedule.add_session deduplicates by structural equality: the number
\* of stored sessions is the number of structurally distinct Sessions added,
\* and re-adding a Session equal to a stored one leaves the set unchanged,
\* logs a warning and does not fail.
C2_AddSessionDeduplicates ==
    /\ [](\A k \in ScheduleIds :
            Cardinality(schedules[k].sessions) = Cardinality(StoredSessions(k)))
    /\ [][\A k \in ScheduleIds, s \in SessionIds :
            (/\ outcome'.op = "add_session"
             /\ outcome'.target.id = k
             /\ outcome'.args[1].id = s)
            => LET v == Session_eq_key(sessions[s]) IN
               /\ outcome'.status = OK
               /\ StoredSessions(k)' = StoredSessions(k) \cup {v}
               /\ v \in StoredSessions(k)
                      => schedules' = schedules /\ outcome'.warned]_vars

\* a second Session object equal to the stored one was added: a warning, and
\* still one stored session
C2_EqualSessionReAdded ==
    /\ outcome.op = "add_session"
    /\ outcome.status = OK
    /\ outcome.warned
    /\ Cardinality(schedules[1].sessions) = 1
    /\ \E e \in schedules[1].sessions :
           /\ e.ref # outcome.args[1].id
           /\ Session_eq(sessions[e.ref], sessions[outcome.args[1].id])

\* two Sessions that differ are both stored
C2_DistinctSessionsStored ==
    /\ outcome.op = "add_session"
    /\ ~outcome.warned
    /\ Cardinality(schedules[1].sessions) = 2

\* C3: for every Session s that passes its validity gate,
\* Session._from_json(s._to_json()) succeeds and returns a Session equal to
\* s, and every key _from_json reads is a key _to_json writes.
C3_SessionRoundTrip ==
    outcome.op = "Session._from_json" =>
        /\ outcome.status = OK
        /\ Session_eq(outcome.ret, sessions[outcome.target.id])
        /\ \A i \in 1..Len(Session_from_json_keys) :
               Session_from_json_keys[i]
                   \in DOMAIN Session_to_json(sessions[outcome.target.id])

\* the round trip of a valid Session raised
C3_RoundTripRaises ==
    /\ outcome.op = "Session._from_json"
    /\ Session_check_valid(sessions[outcome.target.id]) = OK
    /\ outcome.status = "TypeError"

\* Session s has start_time, end_time and weekdays all set
AllThreeSet(s) ==
    s.start_time # None /\ s.end_time # None /\ s.weekdays # None

\* C7: every Session stored in a Schedule has start_time, end_time and
\* weekdays all set, and add_session given a Session missing any of the three
\* fails with a domain error.
C7_StoredSessionsValid ==
    /\ \A k \in ScheduleIds : \A e \in schedules[k].sessions :
           AllThreeSet(sessions[e.ref])
    /\ (outcome.op = "add_session"
        /\ ~AllThreeSet(sessions[outcome.args[1].id]))
           => outcome.status = "ImplementorError"

\* add_session stored a Session with none of the three set
C7_BlankSessionStored ==
    /\ outcome.op = "add_session"
    /\ outcome.status = OK
    /\ \E e \in schedules[1].sessions :
           /\ e.ref = outcome.args[1].id
           /\ sessions[e.ref] = Session_new

---------------------------------------------------------------------------
(* Properties of Course and ScraperResult, under SpecResult *)

\* the entries of the result's courses mapping under key
EntriesFor(key) ==
    {i \in 1..Len(result.courses.entries) : result.courses.entries[i].key = key}

\* C1: add_course is last-write-wins per course code: after add_course(c) the
\* mapping holds exactly one entry for c's code, the entry is c, and the call
\* has not failed, whether or not the code was present before.
C1_LastWriteWins ==
    (/\ outcome.op = "add_course"
     /\ outcome.args[1].type = "Course"
     /\ courses[outcome.args[1].id].code # None)
    => /\ outcome.status = OK
       /\ Cardinality(EntriesFor(courses[outcome.args[1].id].code)) = 1
       /\ DictValue(result.courses, courses[outcome.args[1].id].code)
              = outcome.args[1]

\* add_course of a Course with a code raised AttributeError and stored nothing
C1_AddCourseRaises ==
    /\ outcome.op = "add_course"
    /\ outcome.args[1].type = "Course"
    /\ courses[outcome.args[1].id].code # None
    /\ outcome.status = "AttributeError"
    /\ result.courses.entries = <<>>

\* C4: for a ScraperResult r with a valid Term,
\* ScraperResult._from_json(r._to_json()) succeeds and returns a
\* ScraperResult equal to r.
C4_ResultRoundTrip ==
    outcome.op = "ScraperResult._from_json" =>
        /\ outcome.status = OK
        /\ ScraperResult_eq(outcome.ret, result)

\* the round trip of a ScraperResult with a Term raised
C4_RoundTripRaises ==
    /\ outcome.op = "ScraperResult._from_json"
    /\ result.term # None
    /\ outcome.status = "TypeError"

\* C8: no entry of the courses mapping is keyed by an unset code or holds a
\* Course whose code is unset, and add_course given a Course whose code is
\* unset fails with a domain error.
C8_StoredCoursesHaveCode ==
    /\ \A i \in 1..Len(result.courses.entries) :
           /\ result.courses.entries[i].key # None
           /\ courses[result.courses.entries[i].val.id].code # None
    /\ (/\ outcome.op = "add_course"
        /\ outcome.args[1].type = "Course"
        /\ courses[outcome.args[1].id].code = None)
       => outcome.status = "ImplementorError"

\* add_course of a Course without a code ended in an error that is not the
\* domain error
C8_NoDomainError ==
    /\ outcome.op = "add_course"
    /\ outcome.args[1].type = "Course"
    /\ courses[outcome.args[1].id].code = None
    /\ outcome.status = "AttributeError"

\* the integers of a sort key
KeyInts(k) == [i \in 1..Len(k.items) |-> k.items[i].val]

\* p is lexicographically less than q
LexLess(p, q) ==
    \E n \in 0..Len(p) :
        /\ n <= Len(q)
        /\ \A i \in 1..n : p[i] = q[i]
        /\ \/ n = Len(p) /\ n < Len(q)
           \/ n < Len(p) /\ n < Len(q) /\ p[n + 1] < q[n + 1]

\* C9: for two Courses that both have a sort_key, a < b whenever a.sort_key
\* is lexicographically less than b.sort_key, whatever their codes and other
\* fields; for two Courses that both have no sort_key, a < b whenever
\* a.code < b.code.
C9_SortKeyThenCode ==
    outcome.op = "Course.__lt__" =>
        LET a == courses[outcome.target.id]
            b == courses[outcome.args[1].id]
        IN /\ (/\ a.sort_key # None
               /\ b.sort_key # None
               /\ LexLess(KeyInts(a.sort_key), KeyInts(b.sort_key)))
              => outcome.status = OK /\ outcome.ret = BoolVal(TRUE)
           /\ (/\ a.sort_key = None
               /\ b.sort_key = None
               /\ a.code # None
               /\ b.code # None
               /\ LexLess(a.code.chars, b.code.chars))
              => outcome.status = OK /\ outcome.ret = BoolVal(TRUE)

\* a < b held by the sort keys although a's code is the greater
C9_SortKeyBeatsCode ==
    /\ outcome.op = "Course.__lt__"
    /\ outcome.ret = BoolVal(TRUE)
    /\ LET a == courses[outcome.target.id]
           b == courses[outcome.args[1].id]
       IN /\ a.sort_key # None
          /\ b.sort_key # None
          /\ LexLess(KeyInts(a.sort_key), KeyInts(b.sort_key))
          /\ a.code # None
          /\ b.code # None
          /\ LexLess(b.code.chars, a.code.chars)
          /\ a.name # b.name

\* 1 for a comparison of two Courses that returned True
CourseHolds(r) == IF r.status = OK /\ r.val THEN 1 ELSE 0

\* C23: for any two Courses built through the setters, also when one of
\* them alone has a sort_key or a name, a < b returns True or False without
\* failing, and exactly one of a < b, a == b, b < a holds.
C23_CourseOrderTotal ==
    outcome.op = "Course.__lt__"
    => LET a == courses[outcome.target.id]
           b == courses[outcome.args[1].id]
       IN /\ outcome.status = OK
          /\ outcome.ret \in {BoolVal(TRUE), BoolVal(FALSE)}
          /\ CourseHolds(Course_lt(a, b)) + CourseHolds(Course_lt(b, a))
             + (IF Course_eq(a, b) THEN 1 ELSE 0) = 1

\* a < b raised TypeError for two Courses with codes, of which one alone has
\* a sort_key
C23_OneSortKeyRaises ==
    /\ outcome.op = "Course.__lt__"
    /\ outcome.status = "TypeError"
    /\ LET a == courses[outcome.target.id]
           b == courses[outcome.args[1].id]
       IN /\ a.code # None
          /\ b.code # None
          /\ a.name = b.name
          /\ a.sort_key = None
          /\ b.sort_key # None

---------------------------------------------------------------------------
(* Properties of the order of Weekdays, under SpecWeekdaysOrder *)

\* the places 1..7 of the week whose day is in the day set, in weekly order
WeeklyPlaces(days) ==
    LET Present(i) == Str(<<CHARS.chars[i]>>) \in days IN
    SelectSeq(<<1, 2, 3, 4, 5, 6, 7>>, Present)

\* the days of the day set as one string in the order M,T,W,R,F,S,U
WeeklyString(days) ==
    Str([i \in 1..Len(WeeklyPlaces(days)) |-> CHARS.chars[WeeklyPlaces(days)[i]]])

\* C13: whatever the order of the add_day calls that made a set of valid day
\* codes, _to_json returns the one string that lists each present day once
\* in the order M,T,W,R,F,S,U, and a < b compares the days of the two
\* Weekdays as sequences of positions in the week, not by letter.
C13_WeeklyOrder ==
    /\ outcome.op = "Weekdays._to_json"
       => outcome.ret = WeeklyString(weekdays[outcome.target.id].days)
    /\ outcome.op = "Weekdays.__lt__"
       => outcome.ret =
              BoolVal(LexLess(WeeklyPlaces(weekdays[outcome.target.id].days),
                              WeeklyPlaces(weekdays[outcome.args[1].id].days)))
    /\ \A a, b \in WeekdaysIds :
           weekdays[a].days = weekdays[b].days
           => Weekdays_to_json(weekdays[a].days) = Weekdays_to_json(weekdays[b].days)

\* a Weekdays of Friday, Tuesday and Monday was written out as "MTF"
C13_WrittenInWeeklyOrder ==
    /\ outcome.op = "Weekdays._to_json"
    /\ weekdays[outcome.target.id].days = {Str(<<70>>), Str(<<84>>), DayM}
    /\ outcome.ret = Str(<<77, 84, 70>>)

\* {T} < {F} holds, by the week and against the letters
C13_TuesdayBeforeFriday ==
    /\ outcome.op = "Weekdays.__lt__"
    /\ weekdays[outcome.target.id].days = {Str(<<84>>)}
    /\ weekdays[outcome.args[1].id].days = {Str(<<70>>)}
    /\ outcome.ret = BoolVal(TRUE)

---------------------------------------------------------------------------
(* Properties of the collections, under SpecCollections *)

\* the days, the Sessions and the course codes that are there stay there
ThreeCollectionsGrow ==
    /\ \A w \in WeekdaysIds : weekdays[w].days \subseteq weekdays'[w].days
    /\ \A k \in ScheduleIds :
           schedules[k].sessions \subseteq schedules'[k].sessions
    /\ DictKeys(result.courses) \subseteq DictKeys(result'.courses)

\* the instructors that are there stay there
InstructorsGrow ==
    \A c \in CourseIds :
        courses[c].instructors # None
        => /\ courses'[c].instructors # None
           /\ courses[c].instructors.elems \subseteq courses'[c].instructors.elems

\* C14, as claimed: the day set of a Weekdays, the session set of a
\* Schedule, the instructor set of a Course and the set of course codes of a
\* ScraperResult only grow: no operation removes an element.
C14_CollectionsOnlyGrow == [][ThreeCollectionsGrow /\ InstructorsGrow]_vars

\* C14, amended: the day set of a Weekdays, the session set of a Schedule and
\* the set of course codes of a ScraperResult only grow; the instructor set
\* of a Course is changed by set_instructors alone, and a set_instructors
\* that succeeds replaces it by the set of the elements of its argument.
C14_ThreeGrowInstructorsReplaced ==
    [][/\ ThreeCollectionsGrow
       /\ \A c \in CourseIds :
              IF outcome'.op = "set_instructors" /\ outcome'.target.id = c
              THEN outcome'.status = OK
                   => courses'[c].instructors =
                          Set({Elements(outcome'.args[1])[i] :
                                  i \in DOMAIN Elements(outcome'.args[1])})
              ELSE courses'[c].instructors = courses[c].instructors]_vars

\* the Weekdays has grown to two days and the Schedule to two Sessions, and
\* set_instructors(["B"]) has left "B" alone in the instructor set
C14_GrownAndReplaced ==
    /\ Cardinality(weekdays["w1"].days) = 2
    /\ Cardinality(schedules[1].sessions) = 2
    /\ outcome.op = "set_instructors"
    /\ outcome.args[1] = List(<<Str(<<66>>)>>)
    /\ outcome.status = OK
    /\ courses["c1"].instructors = Set({Str(<<66>>)})

\* C17: set_instructors validates before it mutates: given a list with an
\* element that is no string, at any place, it fails with a domain error
\* and leaves the instructor set as it was; when it succeeds the instructor
\* set is the set of the names in the argument, and it has warned exactly
\* when a name is repeated.
C17_SetInstructorsValidatesFirst ==
    [][outcome'.op = "set_instructors"
       => LET c == outcome'.target.id
              arg == outcome'.args[1]
          IN /\ (/\ arg.type = "list"
                 /\ \E i \in 1..Len(arg.items) : arg.items[i].type # "str")
                => /\ outcome'.status = "ImplementorError"
                   /\ courses'[c].instructors = courses[c].instructors
             /\ outcome'.status = OK
                => /\ courses'[c].instructors =
                          Set({Elements(arg)[i] : i \in DOMAIN Elements(arg)})
                   /\ outcome'.warned
                          <=> \E i, j \in DOMAIN Elements(arg) :
                                  i < j /\ Elements(arg)[i] = Elements(arg)[j]]_vars

\* set_instructors(["B", 1]) has failed and left "B" as the instructor set
C17_FailedCallMutated ==
    /\ outcome.op = "set_instructors"
    /\ outcome.args[1] = List(<<Str(<<66>>), IntVal(1)>>)
    /\ outcome.status = "ImplementorError"
    /\ courses[outcome.target.id].instructors = Set({Str(<<66>>)})

---------------------------------------------------------------------------
(* Properties of ownership, under SpecSharing *)

\* what is seen of Course c through its schedule: the Sessions stored there
SeenSchedule(c) ==
    IF courses[c].schedule = None THEN None
    ELSE Set(StoredSessions(courses[c].schedule.id))

\* C15: a composite owns what it was given: what is seen through a Session
\* (its fields, the days of its Weekdays), through a Schedule (its Sessions
\* and their fields), through a Course (the Sessions of its Schedule) and
\* through the ScraperResult (its entries) changes only by a call on that
\* composite itself, never by a later call on the object the caller handed
\* over or on another composite that was given the same object.
C15_CompositesOwnTheirParts ==
    [][/\ \A s \in SessionIds :
              outcome'.target # Ref("Session", s)
              => Session_eq_key(sessions[s])' = Session_eq_key(sessions[s])
       /\ \A k \in ScheduleIds :
              outcome'.target # Ref("Schedule", k)
              => StoredSessions(k)' = StoredSessions(k)
       /\ \A c \in CourseIds :
              outcome'.target # Ref("Course", c)
              => SeenSchedule(c)' = SeenSchedule(c)
       /\ outcome'.target # Ref("ScraperResult", 1)
              => result' = result]_vars

\* add_day on the caller's Weekdays added a day to the Weekdays that two
\* Sessions hold
C15_SharedWeekdaysGrew ==
    /\ outcome.op = "add_day"
    /\ outcome.status = OK
    /\ ~outcome.warned
    /\ Cardinality(weekdays["w1"].days) = 2
    /\ \A s \in SessionIds : sessions[s].weekdays = outcome.target

---------------------------------------------------------------------------
(* Properties of the validity gates, under SpecValidity *)

\* the fields of a Session and the fields of a Course that start unset and
\* have a setter that tells a set field from an unset one
SessionFields ==
    {"start_date", "end_date", "weekdays", "start_time", "end_time",
     "subterm", "location"}
CourseFields == {"code", "name", "schedule", "sort_key"}

\* C18: validity is monotone: a Session that passes _check_valid passes it
\* after every later setter call, successful or failed, because no setter
\* returns a set field to unset; and a Course whose code is set passes
\* Course._check_valid after every later Course setter call.
C18_ValidityMonotone ==
    [][/\ \A s \in SessionIds :
              /\ Session_check_valid(sessions[s]) = OK
                 => Session_check_valid(sessions'[s]) = OK
              /\ \A f \in SessionFields :
                     sessions[s][f] # None => sessions'[s][f] # None
       /\ \A c \in CourseIds :
              /\ Course_check_valid(courses[c]) = OK
                 => Course_check_valid(courses'[c]) = OK
              /\ \A f \in CourseFields :
                     courses[c][f] # None => courses'[c][f] # None]_vars

\* set_weekdays(None) on a valid Session failed, and the Session is valid
\* still
C18_UnsetRefused ==
    /\ outcome.op = "set_weekdays"
    /\ outcome.args[1] = None
    /\ outcome.status = "ImplementorError"
    /\ Session_check_valid(sessions[1]) = OK
    /\ sessions[1].weekdays = Ref("Weekdays", "w1")

\* set_code(None) on a Course with a code failed, and the code is there still
C18_CodeKept ==
    /\ outcome.op = "set_code"
    /\ outcome.args[1] = None
    /\ outcome.status = "ImplementorError"
    /\ Course_check_valid(courses["c1"]) = OK

---------------------------------------------------------------------------
(* Properties of the order of Schedules, under SpecOrder *)

\* 1 for a comparison that returned True
Holds(r) == IF r.status = OK /\ r.val THEN 1 ELSE 0

\* C19: Schedule comparison is the total order of the sorted session tuples
\* and agrees with equality: a <= a and a >= a hold for every Schedule a,
\* a <= b holds for equal Schedules, and of a < b, a == b, b < a exactly one
\* holds.
C19_ScheduleOrderAgreesWithEquality ==
    /\ (/\ outcome.op \in {"Schedule.__le__", "Schedule.__ge__"}
        /\ \/ outcome.target = outcome.args[1]
           \/ Schedule_eq(outcome.target.id, outcome.args[1].id))
       => outcome.status = OK /\ outcome.ret = BoolVal(TRUE)
    /\ \A a, b \in ScheduleIds :
           \A x \in Schedule_lt(a, b), y \in Schedule_lt(b, a) :
               Holds(x) + Holds(y)
                   + (IF a = b \/ Schedule_eq(a, b) THEN 1 ELSE 0) = 1

\* a <= a returned False for a Schedule of one Session
C19_NotReflexive ==
    /\ outcome.op = "Schedule.__le__"
    /\ outcome.target = outcome.args[1]
    /\ Cardinality(schedules[outcome.target.id].sessions) = 1
    /\ outcome.status = OK
    /\ outcome.ret = BoolVal(FALSE)

---------------------------------------------------------------------------
(* Properties of a Schedule whose Sessions are changed after they were added,
   under SpecSharing *)

\* C21: in every state that add_session calls and Session setter calls
\* reach in any order, setters called on a Session already added included,
\* the Schedule holds no two structurally equal Sessions, and every Session
\* that was added is found by the membership test of add_session.
C21_DeduplicatedUnderMutation ==
    \A k \in ScheduleIds :
        /\ Cardinality(schedules[k].sessions) = Cardinality(StoredSessions(k))
        /\ \A e \in schedules[k].sessions :
               Schedule_contains(schedules[k].sessions, e.ref)

\* a setter called on a stored Session made it equal to the other stored
\* Session, and the Session is no longer found under the hash it was
\* stored with
C21_EqualSessionsStored ==
    /\ outcome.op \in {"set_weekdays", "set_location"}
    /\ outcome.status = OK
    /\ \E e, f \in schedules[1].sessions :
           /\ e.ref = outcome.target.id
           /\ f.ref # e.ref
           /\ Session_eq(sessions[e.ref], sessions[f.ref])
           /\ ~Schedule_contains(schedules[1].sessions, e.ref)

=============================================================================
